---- MODULE Spec2Model ----
(***************************************************************************)
(* Model of the GitHub job-summary generator of aer-dist                   *)
(* (cmd/actions/summary/main.go): generateSummary and its helpers          *)
(* aggregateCoverageByTopLevel, getCoverageEmoji, generateCoverageBar,     *)
(* generateMiniBar and formatDurationSeconds, and main with its readers    *)
(* readJUnitXML and readCoverageJSON.                                      *)
(*                                                                         *)
(* Representation.                                                         *)
(*  - A class name is a sequence of tokens; the token "." is the nesting   *)
(*    delimiter and every other token is a dot-free piece of text, so      *)
(*    <<"Alpha", ".", "InnerHelper">> is the Go string "Alpha.InnerHelper" *)
(*    and <<>> is the empty string.                                        *)
(*  - A float64 is an exact rational [num, den] with den > 0.  The values  *)
(*    of the model are quotients of small integers: two of them are equal  *)
(*    as float64 exactly when they are equal as rationals, and they        *)
(*    compare as the rationals do.  Where the rounding of float64          *)
(*    arithmetic changes a result (the product a bar is filled by), the    *)
(*    operator says so.                                                    *)
(*  - The rendered document is a record of its sections, each holding the  *)
(*    values that fmt.Sprintf prints, already formatted (a percentage      *)
(*    printed with %.1f is the integer number of tenths printed).          *)
(***************************************************************************)
EXTENDS Integers, Sequences, FiniteSets, TLC

VARIABLES results, doc, pc, env, out

vars == <<results, doc, pc, env, out>>

(***************************************************************************)
(* Bounds of the model.                                                    *)
(***************************************************************************)
MaxClasses == 2
MaxLines == 2
MaxNamed == 2

(***************************************************************************)
(* Rationals standing for float64 values.                                  *)
(***************************************************************************)
Rat(n, d) == [num |-> n, den |-> d]

RatGt(p, q) == p.num * q.den > q.num * p.den

RatGe(p, q) == p.num * q.den >= q.num * p.den

RatLt(p, q) == p.num * q.den < q.num * p.den

RatEq(p, q) == p.num * q.den = q.num * p.den

\* float64(covered) / float64(total) * 100, 0 when total is 0
PctOf(covered, total) == IF total > 0 THEN Rat(covered * 100, total) ELSE Rat(0, 1)

Pow10(k) == IF k = 0 THEN 1 ELSE IF k = 1 THEN 10 ELSE 100

\* fmt's %.kf of a float64: the decimal with k fraction digits nearest to the
\* value, an exact tie going to the even digit.  The result is the printed
\* number times 10^k.  (A tie is exact only for a value that is a binary
\* fraction; the inputs of the model have no other ties.)
FmtFixed(p, k) ==
    LET n == p.num * Pow10(k)
        q == n \div p.den
        r == n % p.den
    IN  IF 2 * r < p.den THEN q
        ELSE IF 2 * r > p.den THEN q + 1
        ELSE IF q % 2 = 0 THEN q ELSE q + 1

\* math.Round: nearest integer, halves away from zero.
MathRound(p) ==
    IF p.num >= 0 THEN (2 * p.num + p.den) \div (2 * p.den)
    ELSE 0 - ((2 * (0 - p.num) + p.den) \div (2 * p.den))

(***************************************************************************)
(* strings.Contains(name, ".") and strings.Index(name, ".")                *)
(***************************************************************************)
Dot == "."

Contains(name) == \E i \in 1..Len(name) : name[i] = Dot

\* 1-based position of the first delimiter (Go's Index + 1)
Index(name) == CHOOSE i \in 1..Len(name) :
                  /\ name[i] = Dot
                  /\ \A j \in 1..(i - 1) : name[j] # Dot

(***************************************************************************)
(* getCoverageEmoji: the glyphs are named by their colour                  *)
(* (green, yellow, orange and red circle).                                 *)
(***************************************************************************)
Green == "green"
Yellow == "yellow"
Orange == "orange"
Red == "red"

\* the lower bounds exclusive
getCoverageEmojiExclusive(percentage) ==
    IF RatGt(percentage, Rat(80, 1)) THEN Green
    ELSE IF RatGt(percentage, Rat(60, 1)) THEN Yellow
    ELSE IF RatGt(percentage, Rat(40, 1)) THEN Orange
    ELSE Red

\* the percentage rounded to a whole number before it is compared
getCoverageEmojiRounded(percentage) ==
    IF MathRound(percentage) >= 80 THEN Green
    ELSE IF MathRound(percentage) >= 60 THEN Yellow
    ELSE IF MathRound(percentage) >= 40 THEN Orange
    ELSE Red

getCoverageEmoji(percentage) ==
    IF RatGe(percentage, Rat(80, 1)) THEN Green
    ELSE IF RatGe(percentage, Rat(60, 1)) THEN Yellow
    ELSE IF RatGe(percentage, Rat(40, 1)) THEN Orange
    ELSE Red

(***************************************************************************)
(* generateCoverageBar and generateMiniBar                                 *)
(***************************************************************************)
BarLength == 50
MiniBarLength == 10

\* (percentage / 100) * float64(barLength) is computed in float64: the quotient
\* is rounded to the nearest float64 and so is the product.  Where the exact
\* product is not a half the float64 product is on the same side of the
\* nearest half as the exact one.  Where it is a half, the float64 product is
\* that half or the float64 next to it.  These are the inputs of the model
\* whose float64 product is just below the half the exact product is:
\*   29 / 100 * 50 = 14.499999999999998     57 / 100 * 50 = 28.499999999999996
ProductBelowHalf(percentage, barLength) ==
    /\ barLength = 50
    /\ \/ RatEq(percentage, Rat(29, 1))
       \/ RatEq(percentage, Rat(57, 1))

\* math.Round of the float64 product
RoundedProduct(percentage, barLength) ==
    LET exact == Rat(percentage.num * barLength, percentage.den * 100)
    IN  IF ProductBelowHalf(percentage, barLength)
        THEN MathRound(exact) - 1
        ELSE MathRound(exact)

\* filled := int(math.Round((percentage / 100) * barLength)), clamped
BarFilled(percentage, barLength) ==
    LET f == RoundedProduct(percentage, barLength)
    IN  IF f < 0 THEN 0 ELSE IF f > barLength THEN barLength ELSE f

generateCoverageBar(percentage) ==
    LET filled == BarFilled(percentage, BarLength)
    IN  [label |-> FmtFixed(percentage, 2),
         filled |-> filled,
         empty |-> BarLength - filled]

generateMiniBar(percentage) ==
    LET filled == BarFilled(percentage, MiniBarLength)
    IN  [filled |-> filled, empty |-> MiniBarLength - filled]

(***************************************************************************)
(* formatDurationSeconds: the printed form and its numbers                 *)
(*   "ms": v whole milliseconds;  "s": v hundredths of a second;           *)
(*   "m": m minutes and v tenths of a second                               *)
(***************************************************************************)
formatDurationSeconds(seconds) ==
    LET ms == Rat(seconds.num * 1000, seconds.den)
    IN  IF RatLt(ms, Rat(1000, 1))
        THEN [form |-> "ms", m |-> 0, v |-> FmtFixed(ms, 0)]
        ELSE IF RatLt(ms, Rat(60000, 1))
        THEN [form |-> "s", m |-> 0, v |-> FmtFixed(seconds, 2)]
        ELSE LET minutes == seconds.num \div (seconds.den * 60)
                 secs == Rat(seconds.num - minutes * 60 * seconds.den, seconds.den)
             IN  [form |-> "m", m |-> minutes, v |-> FmtFixed(secs, 1)]

(***************************************************************************)
(* sort.Slice(s, less) reorders the slice so that no element is less than  *)
(* one before it.  sort.Slice is not a stable sort: elements that compare  *)
(* equal may end in any order.                                             *)
(***************************************************************************)
Perms(n) == {f \in [1..n -> 1..n] : \A i, j \in 1..n : i # j => f[i] # f[j]}

\* the reorderings of a slice
Permuted(s) == {[i \in 1..Len(s) |-> s[f[i]]] : f \in Perms(Len(s))}

(***************************************************************************)
(* aggregateCoverageByTopLevel                                             *)
(***************************************************************************)
\* the name cut at its last delimiter instead of its first
TopNameLastDelimiter(cls) ==
    IF cls.TopLevelClass # <<>> THEN cls.TopLevelClass
    ELSE IF Contains(cls.ClassName)
         THEN LET last == CHOOSE i \in 1..Len(cls.ClassName) :
                              /\ cls.ClassName[i] = Dot
                              /\ \A j \in (i + 1)..Len(cls.ClassName) :
                                    cls.ClassName[j] # Dot
              IN  SubSeq(cls.ClassName, 1, last - 1)
         ELSE cls.ClassName

\* no roll-up of a dotted name to its prefix
TopNameNoPrefix(cls) ==
    IF cls.TopLevelClass # <<>> THEN cls.TopLevelClass ELSE cls.ClassName

\* lines 346-353: the key a record is grouped under
TopName(cls) ==
    IF cls.TopLevelClass # <<>> THEN cls.TopLevelClass
    ELSE IF Contains(cls.ClassName)
         THEN SubSeq(cls.ClassName, 1, Index(cls.ClassName) - 1)
         ELSE cls.ClassName

\* the keys of the map agg after the first loop
AggKeys(classes) == {TopName(classes[i]) : i \in 1..Len(classes)}

RECURSIVE SumTotalLines(_, _, _)
SumTotalLines(classes, topName, n) ==
    IF n = 0 THEN 0
    ELSE SumTotalLines(classes, topName, n - 1)
         + (IF TopName(classes[n]) = topName THEN classes[n].TotalLines ELSE 0)

RECURSIVE SumCoveredCount(_, _, _)
SumCoveredCount(classes, topName, n) ==
    IF n = 0 THEN 0
    ELSE SumCoveredCount(classes, topName, n - 1)
         + (IF TopName(classes[n]) = topName THEN classes[n].CoveredCount ELSE 0)

\* the entry replaced by each record of the group instead of added to
AggEntryOverwritten(classes, topName) ==
    LET last == CHOOSE i \in 1..Len(classes) :
                    /\ TopName(classes[i]) = topName
                    /\ \A j \in (i + 1)..Len(classes) : TopName(classes[j]) # topName
    IN  [ClassName |-> topName,
         TotalLines |-> classes[last].TotalLines,
         CoveredCount |-> classes[last].CoveredCount,
         UncoveredCount |-> 0,
         Percentage |-> Rat(0, 1)]

\* lines 355-361: *agg[topName] after the first loop
AggEntry(classes, topName) ==
    [ClassName |-> topName,
     TotalLines |-> SumTotalLines(classes, topName, Len(classes)),
     CoveredCount |-> SumCoveredCount(classes, topName, Len(classes)),
     UncoveredCount |-> 0,
     Percentage |-> Rat(0, 1)]

\* lines 366-372: the entry as appended to result
FinishEntry(entry) ==
    IF entry.TotalLines > 0
    THEN LET covered == IF entry.CoveredCount > entry.TotalLines
                        THEN entry.TotalLines ELSE entry.CoveredCount
         IN  [entry EXCEPT !.CoveredCount = covered,
                           !.UncoveredCount = entry.TotalLines - covered,
                           !.Percentage = Rat(covered * 100, entry.TotalLines)]
    ELSE entry

\* The possible results: ranging over a Go map visits its keys in an order
\* that differs from run to run.
aggregateCoverageByTopLevel(classes) ==
    IF Len(classes) = 0 THEN {<<>>}
    ELSE LET keys == AggKeys(classes)
             n == Cardinality(keys)
             orders == {o \in [1..n -> keys] :
                           \A i, j \in 1..n : i # j => o[i] # o[j]}
         IN  {[i \in 1..n |-> FinishEntry(AggEntry(classes, o[i]))] : o \in orders}

(***************************************************************************)
(* generateSummary, lines 185-209: the per-class coverage table            *)
(***************************************************************************)
\* line 198: the less function of the sort
ClassLess(a, b) == RatGt(a.Percentage, b.Percentage)

\* lines 195-199: the outcomes of sorting a copy of the aggregated classes
SortClasses(topLevelClasses) ==
    {sortedClasses \in Permuted(topLevelClasses) :
        \A i, j \in 1..Len(sortedClasses) :
            i < j => ~ClassLess(sortedClasses[j], sortedClasses[i])}

\* lines 202-205: one row of the table
ClassRow(cls) ==
    [ClassName |-> cls.ClassName,
     glyph |-> getCoverageEmoji(cls.Percentage),
     pct1 |-> FmtFixed(cls.Percentage, 1),
     bar |-> generateMiniBar(cls.Percentage),
     CoveredCount |-> cls.CoveredCount,
     TotalLines |-> cls.TotalLines,
     UncoveredCount |-> cls.UncoveredCount,
     Percentage |-> cls.Percentage]

NoClassTable == [present |-> FALSE, count |-> 0, rows |-> <<>>]

ClassTables(classes) ==
    {IF Len(topLevelClasses) > 0
     THEN [present |-> TRUE,
           count |-> Len(topLevelClasses),
           rows |-> [i \in 1..Len(sortedClasses) |-> ClassRow(sortedClasses[i])]]
     ELSE NoClassTable :
        <<topLevelClasses, sortedClasses>> \in
            UNION {{<<t, s>> : s \in SortClasses(t)} :
                      t \in aggregateCoverageByTopLevel(classes)}}

(***************************************************************************)
(* generateSummary: the other sections                                     *)
(***************************************************************************)
PassGlyph == "pass"
FailGlyph == "fail"

\* lines 143-151: the header
Header(suite) ==
    IF suite.Failures = 0
    THEN [glyph |-> PassGlyph, text |-> "All Tests Passed"]
    ELSE [glyph |-> FailGlyph, text |-> "Some Tests Failed"]

\* the percentage recomputed from the line counts
CoverageRowsRecomputed(coverage) ==
    [glyph |-> getCoverageEmoji(PctOf(coverage.CoveredLines, coverage.TotalLines)),
     pct2 |-> FmtFixed(PctOf(coverage.CoveredLines, coverage.TotalLines), 2),
     CoveredLines |-> coverage.CoveredLines,
     TotalLines |-> coverage.TotalLines]

\* lines 166-173: the value the two coverage rows of the summary table print
CoverageRows(coverage) ==
    [glyph |-> getCoverageEmoji(coverage.OverallCoverage),
     pct2 |-> FmtFixed(coverage.OverallCoverage, 2),
     CoveredLines |-> coverage.CoveredLines,
     TotalLines |-> coverage.TotalLines]

\* lines 154-176: the summary table; each part is a sequence of 0 or 1 entries
SummaryTable(res) ==
    IF res.Suite.Tests > 0
    THEN [present |-> TRUE,
          stats |-> <<[Total |-> res.Suite.Tests,
                       Passed |-> res.Suite.Tests - res.Suite.Failures,
                       Failed |-> res.Suite.Failures,
                       Duration |-> formatDurationSeconds(res.Suite.Time)]>>,
          coverage |-> IF res.Coverage.TotalLines > 0
                       THEN <<CoverageRows(res.Coverage)>> ELSE <<>>]
    ELSE [present |-> FALSE, stats |-> <<>>, coverage |-> <<>>]

\* lines 179-183: the coverage overview and its bar
Overview(coverage) ==
    IF coverage.TotalLines > 0
    THEN <<generateCoverageBar(coverage.OverallCoverage)>>
    ELSE <<>>

\* lines 219-225: the text blocks one test case's failures print
RECURSIVE FailureBlocks(_)
FailureBlocks(failures) ==
    IF failures = <<>> THEN <<>>
    ELSE LET f == Head(failures)
             msg == IF f.Message = "" THEN f.Body ELSE f.Message
         IN  (IF msg # "" THEN <<msg>> ELSE <<>>) \o FailureBlocks(Tail(failures))

\* lines 215-228: the subsections of the failed-tests section
RECURSIVE FailedSubsections(_)
FailedSubsections(testCases) ==
    IF testCases = <<>> THEN <<>>
    ELSE LET tc == Head(testCases)
         IN  (IF Len(tc.Failures) > 0
              THEN <<[Classname |-> tc.Classname, Name |-> tc.Name,
                      blocks |-> FailureBlocks(tc.Failures)]>>
              ELSE <<>>) \o FailedSubsections(Tail(testCases))

\* the section gated on the test cases instead of the failure count
FailedTestsByCases(suite) ==
    IF FailedSubsections(suite.TestCases) # <<>>
    THEN [present |-> TRUE, subsections |-> FailedSubsections(suite.TestCases)]
    ELSE [present |-> FALSE, subsections |-> <<>>]

\* lines 213-229
FailedTests(suite) ==
    IF suite.Failures > 0
    THEN [present |-> TRUE, subsections |-> FailedSubsections(suite.TestCases)]
    ELSE [present |-> FALSE, subsections |-> <<>>]

\* lines 254-259 and 274-279: one row of a test table
TestRow(tc) ==
    [glyph |-> IF Len(tc.Failures) > 0 THEN FailGlyph ELSE PassGlyph,
     Classname |-> tc.Classname,
     Name |-> tc.Name,
     Duration |-> formatDurationSeconds(tc.Time)]

\* line 239: the less function of the sort
DurationLess(a, b) == RatGt(a.Time, b.Time)

MaxSlowest == 10

\* the slice without its i-th element
RemoveAt(s, i) == SubSeq(s, 1, i - 1) \o SubSeq(s, i + 1, Len(s))

\* lines 236-240: the outcomes of sorting a copy of the test cases, every
\* reordering in which no element is less than one before it.  Any element
\* that none is less than may come first, the rest follows sorted.
RECURSIVE SortTestCases(_)
SortTestCases(testCases) ==
    IF testCases = <<>> THEN {<<>>}
    ELSE UNION {{<<testCases[i]>> \o rest :
                    rest \in SortTestCases(RemoveAt(testCases, i))} :
                 i \in {k \in 1..Len(testCases) :
                           \A j \in 1..Len(testCases) :
                               ~DurationLess(testCases[j], testCases[k])}}

\* lines 232-263: the slowest-tests table, one per outcome of the sort
SlowestTables(suite) ==
    IF Len(suite.TestCases) > 0
    THEN {[present |-> TRUE,
           rows |-> [i \in 1..(IF Len(sortedByDuration) < MaxSlowest
                               THEN Len(sortedByDuration) ELSE MaxSlowest) |->
                        TestRow(sortedByDuration[i])]] :
             sortedByDuration \in SortTestCases(suite.TestCases)}
    ELSE {[present |-> FALSE, rows |-> <<>>]}

\* lines 266-283: the full listing
AllTests(suite) ==
    IF Len(suite.TestCases) > 0
    THEN [present |-> TRUE,
          count |-> Len(suite.TestCases),
          rows |-> [i \in 1..Len(suite.TestCases) |-> TestRow(suite.TestCases[i])]]
    ELSE [present |-> FALSE, count |-> 0, rows |-> <<>>]

\* lines 186-209: the per-class table is rendered inside the overview
CoverageByClass(coverage) ==
    IF coverage.TotalLines > 0
    THEN ClassTables(coverage.Classes)
    ELSE {NoClassTable}

\* lines 137-286: the documents generateSummary may return
generateSummary(res) ==
    {[header |-> Header(res.Suite),
      summary |-> SummaryTable(res),
      overview |-> Overview(res.Coverage),
      classTable |-> ct,
      failed |-> FailedTests(res.Suite),
      slowest |-> sl,
      all |-> AllTests(res.Suite)] :
        ct \in CoverageByClass(res.Coverage),
        sl \in SlowestTables(res.Suite)}

(***************************************************************************)
(* Filter mode of the Coverage Aggregator (specification, section 4.2,     *)
(* mode 1) and the table the Report Renderer makes of it (section 4.3,     *)
(* item 3).  The source under cmd/actions/summary has merge mode only.     *)
(***************************************************************************)
IsTopLevel(cls) == cls.TopLevel

IsUndotted(cls) == ~Contains(cls.ClassName)

\* every record shown, nested ones included
FilterKeepsAll(classes) == classes

FilterTopLevel(classes) ==
    IF \E i \in 1..Len(classes) : classes[i].TopLevel
    THEN SelectSeq(classes, IsTopLevel)
    ELSE SelectSeq(classes, IsUndotted)

\* the kept records by percentage descending, a stable sort: records of
\* equal percentage keep their order
StableSortClasses(s) ==
    LET f == CHOOSE f \in Perms(Len(s)) :
                 \A i, j \in 1..Len(s) :
                     i < j => \/ ClassLess(s[f[i]], s[f[j]])
                              \/ (~ClassLess(s[f[j]], s[f[i]]) /\ f[i] < f[j])
    IN  [i \in 1..Len(s) |-> s[f[i]]]

FilterClassTable(coverage) ==
    LET kept == FilterTopLevel(coverage.Classes)
        sorted == StableSortClasses(kept)
    IN  IF coverage.TotalLines > 0 /\ Len(kept) > 0
        THEN [present |-> TRUE,
              count |-> Len(kept),
              rows |-> [i \in 1..Len(sorted) |-> ClassRow(sorted[i])]]
        ELSE NoClassTable

generateSummaryFilterMode(res) ==
    {[header |-> Header(res.Suite),
      summary |-> SummaryTable(res),
      overview |-> Overview(res.Coverage),
      classTable |-> FilterClassTable(res.Coverage),
      failed |-> FailedTests(res.Suite),
      slowest |-> sl,
      all |-> AllTests(res.Suite)] :
        sl \in SlowestTables(res.Suite)}

(***************************************************************************)
(* Inputs.                                                                 *)
(***************************************************************************)
ClsP(name, covered, total, percentage, topLevel, topLevelClass) ==
    [ClassName |-> name,
     TotalLines |-> total,
     CoveredCount |-> covered,
     UncoveredCount |-> total - covered,
     Percentage |-> percentage,
     TopLevel |-> topLevel,
     TopLevelClass |-> topLevelClass]

Cls(name, covered, total, topLevel, topLevelClass) ==
    ClsP(name, covered, total, PctOf(covered, total), topLevel, topLevelClass)

Alpha == <<"Alpha">>
Beta == <<"Beta">>
AlphaInnerHelper == <<"Alpha", ".", "InnerHelper">>
Gamma == <<"Gamma">>
Delta == <<"Delta">>
DeltaInner == <<"Delta", ".", "Inner">>
DeltaInnerDeep == <<"Delta", ".", "Inner", ".", "Deep">>
NoName == <<>>

\* Lists that vary the line counts (covered above total and empty classes
\* included) over one nested and two top-level names without metadata.
CountRecords ==
    {Cls(n, c, t, FALSE, NoName) :
        n \in {Alpha, AlphaInnerHelper, Beta}, c \in 0..MaxLines, t \in 0..MaxLines}

CountLists == UNION {[1..k -> CountRecords] : k \in 0..MaxClasses}

\* Lists that vary the names, the explicit owner and the topLevel flag.
NamedRecords ==
    {Cls(n, ct[1], ct[2], f, o) :
        n \in {Gamma, Delta, DeltaInner, DeltaInnerDeep},
        ct \in {<<1, 2>>, <<1, 1>>},
        f \in BOOLEAN,
        o \in {NoName, Gamma, DeltaInner}}

NamedLists == UNION {[1..k -> NamedRecords] : k \in 1..MaxNamed}

\* The class lists of the repository's tests and of the specification's scenarios.
FixtureMerged ==
    <<ClsP(Alpha, 20, 30, Rat(666, 10), TRUE, Alpha),
      ClsP(Beta, 10, 20, Rat(50, 1), TRUE, Beta),
      ClsP(AlphaInnerHelper, 8, 10, Rat(80, 1), FALSE, Alpha)>>

FixtureNoMetadata ==
    <<ClsP(Alpha, 20, 30, Rat(666, 10), FALSE, NoName),
      ClsP(Beta, 10, 20, Rat(50, 1), FALSE, NoName),
      ClsP(AlphaInnerHelper, 8, 10, Rat(80, 1), FALSE, NoName)>>

FixtureUnknown ==
    <<ClsP(Gamma, 1, 10, Rat(10, 1), FALSE, NoName),
      ClsP(DeltaInner, 2, 4, Rat(50, 1), FALSE, NoName)>>

FixtureFlags ==
    <<ClsP(Alpha, 30, 40, Rat(75, 1), TRUE, NoName),
      ClsP(Beta, 10, 20, Rat(50, 1), TRUE, NoName),
      ClsP(AlphaInnerHelper, 5, 5, Rat(100, 1), FALSE, NoName)>>

FixtureGamma == <<ClsP(Gamma, 1, 10, Rat(10, 1), FALSE, NoName)>>

Fixtures ==
    {FixtureMerged, FixtureNoMetadata, FixtureUnknown, FixtureFlags, FixtureGamma}

NoFailures == <<>>

PassingTest ==
    [Name |-> "testOne", Classname |-> "Alpha", Time |-> Rat(1, 10),
     Failures |-> NoFailures]

PassingSuite ==
    [Tests |-> 1, Failures |-> 0, Time |-> Rat(1, 10), TestCases |-> <<PassingTest>>]

CoverageOf(classes, overall, covered, total) ==
    [Classes |-> classes,
     OverallCoverage |-> overall,
     TotalLines |-> total,
     CoveredLines |-> covered,
     UncoveredLines |-> total - covered]

\* Test suites: the failures attribute is independent of the test cases'
\* failure elements, as in a JUnit document.
MaxTests == 2
MaxFailures == 2

Failure(message, body) == [Message |-> message, Body |-> body]

FailureLists ==
    {NoFailures,
     <<Failure("boom", "")>>,
     <<Failure("", "trace")>>,
     <<Failure("boom", "trace")>>,
     <<Failure("", "")>>,
     <<Failure("boom", ""), Failure("", "trace")>>}

TestCaseRecords ==
    {[Name |-> n, Classname |-> "Beta", Time |-> t, Failures |-> f] :
        n \in {"testOne", "testTwo"},
        t \in {Rat(1, 5), Rat(3, 2)},
        f \in FailureLists}

TestCaseLists == UNION {[1..k -> TestCaseRecords] : k \in 0..MaxTests}

\* Suites of more test cases than the slowest-tests table shows: twelve test
\* cases of twelve different times, and twelve that are pairwise equal in time
ManyNames ==
    <<"t01", "t02", "t03", "t04", "t05", "t06",
      "t07", "t08", "t09", "t10", "t11", "t12">>

FixtureManyDistinct ==
    [i \in 1..12 |->
        [Name |-> ManyNames[i], Classname |-> "Beta",
         Time |-> Rat(((i * 5) % 12) + 1, 10),
         Failures |-> IF i = 4 THEN <<Failure("boom", "")>> ELSE NoFailures]]

FixtureManyPaired ==
    [i \in 1..12 |->
        [Name |-> ManyNames[i], Classname |-> "Beta",
         Time |-> Rat((((i * 5) % 12) \div 2) + 1, 10),
         Failures |-> NoFailures]]

\* eleven test cases: one more than the table shows
FixtureEleven == SubSeq(FixtureManyDistinct, 1, 11)

NoCoverage == CoverageOf(<<>>, Rat(0, 1), 0, 0)

\* The overall percentages: the tier boundaries and their neighbours, values
\* outside [0,100], binary fractions that are ties at two decimals, and whole
\* percentages whose half of a bar cell is a tie (29, 57, 75).
OverallValues ==
    {Rat(0, 1), Rat(3999, 100), Rat(40, 1), Rat(599, 10), Rat(60, 1),
     Rat(75, 1), Rat(799, 10), Rat(7999, 100), Rat(80, 1), Rat(100, 1),
     Rat(97, 8), Rat(99, 8), Rat(0 - 5, 1), Rat(120, 1),
     Rat(29, 1), Rat(57, 1)}

FixtureTiers ==
    <<Cls(Alpha, 4, 5, TRUE, NoName),
      Cls(Beta, 3, 5, TRUE, NoName),
      Cls(Gamma, 2, 5, TRUE, NoName),
      Cls(Delta, 1, 5, TRUE, NoName)>>

FixtureBelowTiers ==
    <<Cls(Alpha, 79, 100, TRUE, NoName),
      Cls(Beta, 59, 100, TRUE, NoName),
      Cls(Gamma, 39, 100, TRUE, NoName),
      Cls(Delta, 100, 100, TRUE, NoName)>>

NoTestSuite == [Tests |-> 0, Failures |-> 0, Time |-> Rat(0, 1), TestCases |-> <<>>]

(***************************************************************************)
(* The process: its command line, the files it is given, the environment   *)
(* and what it has written.                                                *)
(*   A file is [readable, wellFormed, decoded]: whether os.ReadFile        *)
(*   succeeds, whether Unmarshal succeeds, and the value it decodes to.    *)
(*   A write is [kind, text]: the rendered summary, a leading part of it,  *)
(*   the status line, or what the summary file held before the run         *)
(*   (the file is opened with O_APPEND).                                   *)
(***************************************************************************)
File(readable, wellFormed, decoded) ==
    [readable |-> readable, wellFormed |-> wellFormed, decoded |-> decoded]

Written(kind, text) == [kind |-> kind, text |-> text]

Earlier == Written("earlier", <<>>)

StatusLine == Written("status", <<>>)

NoOutput == [exited |-> FALSE, status |-> 0, stderr |-> <<>>,
             stdout |-> <<>>, file |-> <<>>]

\* generateSummary called directly, outside a run of main
NoInvocation ==
    [junitFile |-> "", coverageFile |-> "",
     junit |-> File(FALSE, FALSE, NoTestSuite),
     coverage |-> File(FALSE, FALSE, NoCoverage),
     summaryFile |-> "", canOpen |-> FALSE, canWrite |-> FALSE,
     summaryBefore |-> <<>>]

(***************************************************************************)
(* The call of generateSummary (main, line 91) on decoded results.         *)
(***************************************************************************)
\* the test cases of *results sorted where they are, not in a copy
ResultsAfterSortInPlace(res) ==
    [res EXCEPT !.Suite.TestCases = CHOOSE s \in SortTestCases(@) : TRUE]

\* What the call leaves in *results.  generateSummary writes nothing through
\* its pointer: each sort.Slice reorders a slice made by make and filled by
\* copy (lines 195-196 and 236-237), and aggregateCoverageByTopLevel appends
\* to a slice of its own (lines 367-374).
ResultsAfter(res) == res

GenerateSummaryCall ==
    /\ pc = "call"
    /\ \E d \in generateSummary(results) : doc' = <<d>>
    /\ results' = ResultsAfter(results)
    /\ pc' = "done"
    /\ UNCHANGED <<env, out>>

NextCall == GenerateSummaryCall

\* generateSummary on a coverage document whose class list varies
InitCov ==
    /\ \E classes \in CountLists \cup NamedLists \cup Fixtures :
          results = [Suite |-> PassingSuite,
                     Coverage |-> CoverageOf(classes, Rat(75, 1), 30, 40)]
    /\ doc = <<>>
    /\ pc = "call"
    /\ env = NoInvocation
    /\ out = NoOutput

SpecCov == InitCov /\ [][NextCall]_vars

\* the renderer over filter mode, on class lists that carry topLevel flags
GenerateSummaryFilterCall ==
    /\ pc = "call"
    /\ \E d \in generateSummaryFilterMode(results) : doc' = <<d>>
    /\ pc' = "done"
    /\ UNCHANGED <<results, env, out>>

NextFilter == GenerateSummaryFilterCall

InitFilter ==
    /\ \E classes \in NamedLists \cup Fixtures :
          results = [Suite |-> PassingSuite,
                     Coverage |-> CoverageOf(classes, Rat(75, 1), 30, 40)]
    /\ doc = <<>>
    /\ pc = "call"
    /\ env = NoInvocation
    /\ out = NoOutput

SpecFilter == InitFilter /\ [][NextFilter]_vars

\* generateSummary on a test suite that varies, with and without coverage
InitTests ==
    /\ \E testCases \in TestCaseLists \cup
                         {FixtureManyDistinct, FixtureManyPaired, FixtureEleven},
          failures \in 0..MaxFailures :
       \E tests \in {0, Len(testCases)} :
       \E coverage \in {NoCoverage, CoverageOf(FixtureUnknown, Rat(75, 1), 30, 40)} :
          results = [Suite |-> [Tests |-> tests, Failures |-> failures,
                                Time |-> Rat(17, 10), TestCases |-> testCases],
                     Coverage |-> coverage]
    /\ doc = <<>>
    /\ pc = "call"
    /\ env = NoInvocation
    /\ out = NoOutput

SpecTests == InitTests /\ [][NextCall]_vars

\* generateSummary on overall coverage figures that vary
InitOverall ==
    /\ \E overall \in OverallValues,
          classes \in Fixtures \cup {<<>>, FixtureTiers, FixtureBelowTiers},
          lines \in {<<0, 0>>, <<30, 40>>, <<1, 10>>},
          suite \in {NoTestSuite, PassingSuite} :
          results = [Suite |-> suite,
                     Coverage |-> CoverageOf(classes, overall, lines[1], lines[2])]
    /\ doc = <<>>
    /\ pc = "call"
    /\ env = NoInvocation
    /\ out = NoOutput

SpecOverall == InitOverall /\ [][NextCall]_vars

(***************************************************************************)
(* main, lines 61-111, and the two readers, lines 113-135.                 *)
(*   pc: "flags" -> "junit" -> "coverage" -> "call" -> "done" -> "exit"    *)
(***************************************************************************)
\* a malformed or unreadable document read as an empty one, without an error
readJUnitXMLLenient(file) ==
    IF file.readable /\ file.wellFormed
    THEN [suite |-> file.decoded, err |-> FALSE]
    ELSE [suite |-> NoTestSuite, err |-> FALSE]

\* lines 113-123
readJUnitXML(file) ==
    IF ~file.readable THEN [suite |-> NoTestSuite, err |-> TRUE]
    ELSE IF ~file.wellFormed THEN [suite |-> NoTestSuite, err |-> TRUE]
    ELSE [suite |-> file.decoded, err |-> FALSE]

\* a malformed or unreadable document read as an empty one, without an error
readCoverageJSONLenient(file) ==
    IF file.readable /\ file.wellFormed
    THEN [cov |-> file.decoded, err |-> FALSE]
    ELSE [cov |-> NoCoverage, err |-> FALSE]

\* lines 125-135
readCoverageJSON(file) ==
    IF ~file.readable THEN [cov |-> NoCoverage, err |-> TRUE]
    ELSE IF ~file.wellFormed THEN [cov |-> NoCoverage, err |-> TRUE]
    ELSE [cov |-> file.decoded, err |-> FALSE]

\* fmt.Fprintf(os.Stderr, ...) followed by os.Exit(1)
Fail(o, diagnostic) ==
    [o EXCEPT !.exited = TRUE, !.status = 1,
              !.stderr = Append(@, diagnostic)]

\* lines 62-69: the flags; no input at all is a usage error
ParseFlags ==
    /\ pc = "flags"
    /\ IF env.junitFile = "" /\ env.coverageFile = ""
       THEN /\ out' = Fail(out, "Usage")
            /\ pc' = "exit"
       ELSE /\ out' = out
            /\ pc' = "junit"
    /\ UNCHANGED <<results, doc, env>>

\* lines 73-80
ReadJUnit ==
    /\ pc = "junit"
    /\ IF env.junitFile = ""
       THEN /\ pc' = "coverage"
            /\ UNCHANGED <<results, out>>
       ELSE LET read == readJUnitXML(env.junit)
            IN  IF read.err
                THEN /\ out' = Fail(out, "Error reading JUnit results")
                     /\ pc' = "exit"
                     /\ UNCHANGED results
                ELSE /\ results' = [results EXCEPT !.Suite = read.suite]
                     /\ pc' = "coverage"
                     /\ UNCHANGED out
    /\ UNCHANGED <<doc, env>>

\* lines 82-89
ReadCoverage ==
    /\ pc = "coverage"
    /\ IF env.coverageFile = ""
       THEN /\ pc' = "call"
            /\ UNCHANGED <<results, out>>
       ELSE LET read == readCoverageJSON(env.coverage)
            IN  IF read.err
                THEN /\ out' = Fail(out, "Error reading coverage data")
                     /\ pc' = "exit"
                     /\ UNCHANGED results
                ELSE /\ results' = [results EXCEPT !.Coverage = read.cov]
                     /\ pc' = "call"
                     /\ UNCHANGED out
    /\ UNCHANGED <<doc, env>>

\* lines 94-110: the summary appended to the file GITHUB_STEP_SUMMARY names,
\* or printed.  A WriteString that fails may have written a leading part.
WriteSummary ==
    /\ pc = "done"
    /\ IF env.summaryFile = ""
       THEN out' = [out EXCEPT !.exited = TRUE, !.status = 0,
                               !.stdout = Append(@, Written("summary", doc))]
       ELSE IF ~env.canOpen
       THEN out' = Fail(out, "Error opening summary file")
       ELSE IF ~env.canWrite
       THEN \E part \in {<<>>, <<Written("partial", doc)>>} :
               out' = Fail([out EXCEPT !.file = @ \o part],
                           "Error writing summary")
       ELSE out' = [out EXCEPT !.exited = TRUE, !.status = 0,
                               !.file = Append(@, Written("summary", doc)),
                               !.stdout = Append(@, StatusLine)]
    /\ pc' = "exit"
    /\ UNCHANGED <<results, doc, env>>

NextMain ==
    \/ ParseFlags
    \/ ReadJUnit
    \/ ReadCoverage
    \/ GenerateSummaryCall
    \/ WriteSummary

FailingTest ==
    [Name |-> "testTwo", Classname |-> "Beta", Time |-> Rat(3, 2),
     Failures |-> <<Failure("boom", "")>>]

FailingSuite ==
    [Tests |-> 2, Failures |-> 1, Time |-> Rat(17, 10),
     TestCases |-> <<PassingTest, FailingTest>>]

Invocations ==
    {[junitFile |-> jf, coverageFile |-> cf,
      junit |-> File(jr, jw, suite),
      coverage |-> File(cr, cw, CoverageOf(FixtureGamma, Rat(75, 1), 30, 40)),
      summaryFile |-> sf, canOpen |-> so, canWrite |-> sw,
      summaryBefore |-> before] :
        jf \in {"", "results.xml"}, cf \in {"", "coverage.json"},
        jr \in BOOLEAN, jw \in BOOLEAN, cr \in BOOLEAN, cw \in BOOLEAN,
        suite \in {PassingSuite, FailingSuite},
        sf \in {"", "summary.md"}, so \in BOOLEAN, sw \in BOOLEAN,
        before \in {<<>>, <<Earlier>>}}

\* a run of main: var results TestResults is the zero value
InitMain ==
    /\ env \in Invocations
    /\ results = [Suite |-> NoTestSuite, Coverage |-> NoCoverage]
    /\ doc = <<>>
    /\ pc = "flags"
    /\ out = [NoOutput EXCEPT !.file = env.summaryBefore]

SpecMain == InitMain /\ [][NextMain]_vars

\* Durations in seconds: each printed form, its two ends, and values just
\* below an end (0.9994, 0.9996, 59.99, 59.999, 119.94, 119.96)
DurationValues ==
    {Rat(0, 1), Rat(1, 2000), Rat(1, 5), Rat(9994, 10000), Rat(9996, 10000),
     Rat(1, 1), Rat(3, 2), Rat(5999, 100), Rat(59999, 1000), Rat(60, 1),
     Rat(11994, 100), Rat(11996, 100), Rat(3600, 1)}

TimedTest(name, time) ==
    [Name |-> name, Classname |-> "Beta", Time |-> time, Failures |-> NoFailures]

\* generateSummary on suites whose durations vary
InitDurations ==
    /\ \E suiteTime \in DurationValues, first \in DurationValues,
          second \in DurationValues :
       \E testCases \in {<<TimedTest("testOne", first)>>,
                          <<TimedTest("testOne", first),
                            TimedTest("testTwo", second)>>} :
          results = [Suite |-> [Tests |-> Len(testCases), Failures |-> 0,
                                Time |-> suiteTime, TestCases |-> testCases],
                     Coverage |-> NoCoverage]
    /\ doc = <<>>
    /\ pc = "call"
    /\ env = NoInvocation
    /\ out = NoOutput

SpecDurations == InitDurations /\ [][NextCall]_vars

Done == pc = "done"

Suite == results.Suite

Coverage == results.Coverage

Classes == results.Coverage.Classes

Table == doc[1].classTable

Rows == Table.rows

RowsNamed(name) == {r \in 1..Len(Rows) : Rows[r].ClassName = name}

(***************************************************************************)
(* The owning top-level identity of a record as the specification words    *)
(* it: the explicit owner if present, else the part of the class name      *)
(* before the first delimiter, else the class name.                        *)
(***************************************************************************)
HasDelimiter(name) == Dot \in {name[i] : i \in 1..Len(name)}

BeforeFirstDelimiter(name) ==
    LET k == CHOOSE k \in 0..(Len(name) - 1) :
                 /\ name[k + 1] = Dot
                 /\ Dot \notin {name[j] : j \in 1..k}
    IN  [i \in 1..k |-> name[i]]

OwningIdentity(cls) ==
    IF Len(cls.TopLevelClass) > 0 THEN cls.TopLevelClass
    ELSE IF HasDelimiter(cls.ClassName) THEN BeforeFirstDelimiter(cls.ClassName)
    ELSE cls.ClassName

Identities == {OwningIdentity(Classes[i]) : i \in 1..Len(Classes)}

Members(identity) == {i \in 1..Len(Classes) : OwningIdentity(Classes[i]) = identity}

RECURSIVE MemberTotal(_)
MemberTotal(S) ==
    IF S = {} THEN 0
    ELSE LET i == CHOOSE i \in S : TRUE
         IN  Classes[i].TotalLines + MemberTotal(S \ {i})

RECURSIVE MemberCovered(_)
MemberCovered(S) ==
    IF S = {} THEN 0
    ELSE LET i == CHOOSE i \in S : TRUE
         IN  Classes[i].CoveredCount + MemberCovered(S \ {i})

\* the summed covered count exceeds a positive summed total
Clamped(identity) ==
    /\ MemberTotal(Members(identity)) > 0
    /\ MemberCovered(Members(identity)) > MemberTotal(Members(identity))

(***************************************************************************)
(* C1: in merge mode the output has exactly one record per owning          *)
(* top-level identity of the input, named after it, whose total is the sum *)
(* of the totals and (unless clamped) whose covered count is the sum of    *)
(* the covered counts of all the records of the group; Alpha 20/30,        *)
(* Beta 10/20, Alpha.InnerHelper 8/10 give Alpha 28/40 (70.0%) and         *)
(* Beta 10/20.                                                             *)
(***************************************************************************)
C1_MergeSumsGroups ==
    Done =>
        /\ Len(Rows) = Cardinality(Identities)
        /\ \A g \in Identities :
              /\ Cardinality(RowsNamed(g)) = 1
              /\ \A r \in RowsNamed(g) :
                    /\ Rows[r].TotalLines = MemberTotal(Members(g))
                    /\ ~Clamped(g) => Rows[r].CoveredCount = MemberCovered(Members(g))
        /\ Classes = FixtureNoMetadata =>
              {<<Rows[r].ClassName, Rows[r].CoveredCount, Rows[r].TotalLines, Rows[r].pct1>> :
                  r \in 1..Len(Rows)}
              = {<<Alpha, 28, 40, 700>>, <<Beta, 10, 20, 500>>}

\* a group of a top-level and a nested record has been summed
C1_Witness ==
    /\ Done
    /\ \E g \in Identities :
          /\ Cardinality(Members(g)) >= 2
          /\ \E i, j \in Members(g) :
                /\ Classes[i].ClassName = g
                /\ HasDelimiter(Classes[j].ClassName)
                /\ Classes[i].TotalLines > 0
                /\ Classes[j].TotalLines > 0
          /\ ~Clamped(g)
          /\ \E r \in RowsNamed(g) : Rows[r].TotalLines = MemberTotal(Members(g))
    /\ Cardinality(Identities) >= 2

(***************************************************************************)
(* C2: every record merge-mode aggregation returns, for any input          *)
(* (covered above total, total 0 with covered above 0, several records in  *)
(* a group), has covered <= total, uncovered = total - covered >= 0 and a  *)
(* percentage in [0,100] that is 0 when the total is 0; so the covered     *)
(* counts sum to at most the totals.                                       *)
(***************************************************************************)
RECURSIVE RowsCovered(_)
RowsCovered(n) == IF n = 0 THEN 0 ELSE Rows[n].CoveredCount + RowsCovered(n - 1)

RECURSIVE RowsTotal(_)
RowsTotal(n) == IF n = 0 THEN 0 ELSE Rows[n].TotalLines + RowsTotal(n - 1)

C2_CoveredWithinTotal ==
    Done =>
        /\ \A r \in 1..Len(Rows) :
              /\ Rows[r].CoveredCount <= Rows[r].TotalLines
              /\ Rows[r].UncoveredCount = Rows[r].TotalLines - Rows[r].CoveredCount
              /\ Rows[r].UncoveredCount >= 0
              /\ RatGe(Rows[r].Percentage, Rat(0, 1))
              /\ RatGe(Rat(100, 1), Rows[r].Percentage)
              /\ Rows[r].TotalLines = 0 => RatEq(Rows[r].Percentage, Rat(0, 1))
        /\ RowsCovered(Len(Rows)) <= RowsTotal(Len(Rows))

(***************************************************************************)
(* C3: a record is grouped under its explicit top-level owner when that is *)
(* non-empty, otherwise under the part of its class name before the first  *)
(* '.', otherwise under its class name; so Gamma appears under its own     *)
(* name and Delta.Inner under Delta although no record is named Delta.     *)
(***************************************************************************)
C3_OwningIdentity ==
    Done =>
        /\ {Rows[r].ClassName : r \in 1..Len(Rows)} = Identities
        /\ \A i \in 1..Len(Classes) :
              LET cls == Classes[i]
              IN  /\ cls.TopLevelClass # NoName
                        => RowsNamed(cls.TopLevelClass) # {}
                  /\ (cls.TopLevelClass = NoName /\ HasDelimiter(cls.ClassName))
                        => RowsNamed(BeforeFirstDelimiter(cls.ClassName)) # {}
                  /\ (cls.TopLevelClass = NoName /\ ~HasDelimiter(cls.ClassName))
                        => RowsNamed(cls.ClassName) # {}
        /\ Classes = FixtureUnknown =>
              {Rows[r].ClassName : r \in 1..Len(Rows)} = {Gamma, Delta}

\* each of the three cases of the rule named a row: an explicit owner, a
\* prefix of a doubly nested name, and an undotted name
C3_Witness ==
    /\ Done
    /\ Len(Classes) = 2
    /\ Classes[1].ClassName = DeltaInnerDeep
    /\ Classes[1].TopLevelClass = NoName
    /\ Classes[2].ClassName = Delta
    /\ Classes[2].TopLevelClass = Gamma
    /\ {Rows[r].ClassName : r \in 1..Len(Rows)} = {Delta, Gamma}

(***************************************************************************)
(* C4 as claimed: no record whose class name contains '.' or whose         *)
(* topLevel flag is false appears under its own name in the table.         *)
(***************************************************************************)
C4_Original ==
    Done =>
        \A i \in 1..Len(Classes) :
            (HasDelimiter(Classes[i].ClassName) \/ ~Classes[i].TopLevel)
                => RowsNamed(Classes[i].ClassName) = {}

(***************************************************************************)
(* C4: every row of the per-class table is named after the owning          *)
(* top-level identity of some record, so a record appears under its own    *)
(* name only if that name is the owning identity of a record: a dotted     *)
(* record without an explicit owner has no row of its own unless a record  *)
(* names it as owner, and every record's line counts are folded into the   *)
(* row of its owning identity.  The topLevel flag plays no part.           *)
(***************************************************************************)
C4_NestedFolded ==
    Done =>
        /\ \A r \in 1..Len(Rows) : Members(Rows[r].ClassName) # {}
        /\ \A i \in 1..Len(Classes) :
              /\ (/\ HasDelimiter(Classes[i].ClassName)
                  /\ Classes[i].TopLevelClass = NoName
                  /\ Members(Classes[i].ClassName) = {})
                    => RowsNamed(Classes[i].ClassName) = {}
              /\ \E r \in RowsNamed(OwningIdentity(Classes[i])) :
                    /\ i \in Members(Rows[r].ClassName)
                    /\ Rows[r].TotalLines = MemberTotal(Members(Rows[r].ClassName))
                    /\ Rows[r].TotalLines >= Classes[i].TotalLines

\* a nested record without a row of its own, its lines in its owner's row
C4_Witness ==
    /\ Done
    /\ \E i, j \in 1..Len(Classes) :
          /\ HasDelimiter(Classes[i].ClassName)
          /\ Classes[i].TotalLines > 0
          /\ ~HasDelimiter(Classes[j].ClassName)
          /\ Classes[j].TotalLines > 0
          /\ OwningIdentity(Classes[i]) = Classes[j].ClassName
          /\ OwningIdentity(Classes[j]) = Classes[j].ClassName
          /\ RowsNamed(Classes[i].ClassName) = {}
          /\ \E r \in RowsNamed(Classes[j].ClassName) :
                Rows[r].TotalLines = Classes[i].TotalLines + Classes[j].TotalLines

(***************************************************************************)
(* C6: the rows of the per-class table are in non-increasing order of      *)
(* percentage, and classes of equal percentage are in the order of their   *)
(* first occurrence in the input class list.                               *)
(***************************************************************************)
FirstOccurrence(identity) ==
    CHOOSE i \in Members(identity) : \A j \in Members(identity) : i <= j

C6_StableDescending ==
    Done =>
        \A r, q \in 1..Len(Rows) :
            r < q =>
                /\ RatGe(Rows[r].Percentage, Rows[q].Percentage)
                /\ RatEq(Rows[r].Percentage, Rows[q].Percentage)
                      => FirstOccurrence(Rows[r].ClassName)
                            < FirstOccurrence(Rows[q].ClassName)

(***************************************************************************)
(* C5: filter mode never merges counts: when a record has its topLevel     *)
(* flag set, the table holds exactly the records whose flag is true, each  *)
(* with its counts and percentage unmodified, and two flagged records of   *)
(* one owner are two rows; Alpha 30/40, Beta 10/20 (both topLevel) and     *)
(* Alpha.InnerHelper 5/5 (not topLevel) give an Alpha row at 75.0% and no  *)
(* InnerHelper row.                                                        *)
(***************************************************************************)
Flagged == {i \in 1..Len(Classes) : Classes[i].TopLevel}

RowShows(r, i) ==
    /\ Rows[r].ClassName = Classes[i].ClassName
    /\ Rows[r].CoveredCount = Classes[i].CoveredCount
    /\ Rows[r].TotalLines = Classes[i].TotalLines
    /\ Rows[r].Percentage = Classes[i].Percentage

TestCases == Suite.TestCases

Failing == {i \in 1..Len(TestCases) : TestCases[i].Failures # <<>>}

\* the k-th failing test case, in input order
NthFailing(k) ==
    CHOOSE i \in Failing : Cardinality({j \in Failing : j < i}) = k - 1

ErrorText(failure) ==
    IF failure.Message # "" THEN failure.Message ELSE failure.Body

\* the non-empty error texts of a test case, in order
RECURSIVE ErrorTexts(_, _)
ErrorTexts(failures, n) ==
    IF n = 0 THEN <<>>
    ELSE ErrorTexts(failures, n - 1)
         \o (IF ErrorText(failures[n]) = "" THEN <<>> ELSE <<ErrorText(failures[n])>>)

C7_FailedTestsSection ==
    Done =>
        /\ doc[1].failed.present <=> Suite.Failures > 0
        /\ ~doc[1].failed.present => doc[1].failed.subsections = <<>>
        /\ doc[1].failed.present =>
              /\ Len(doc[1].failed.subsections) = Cardinality(Failing)
              /\ \A k \in 1..Len(doc[1].failed.subsections) :
                    LET sub == doc[1].failed.subsections[k]
                        tc == TestCases[NthFailing(k)]
                    IN  /\ sub.Classname = tc.Classname
                        /\ sub.Name = tc.Name
                        /\ sub.blocks = ErrorTexts(tc.Failures, Len(tc.Failures))

\* a failing run with a passing test before a failing one that has a message
C7_Witness ==
    /\ Done
    /\ Suite.Failures > 0
    /\ Len(TestCases) = 2
    /\ Failing = {2}
    /\ Len(doc[1].failed.subsections) = 1
    /\ doc[1].failed.subsections[1].Name = TestCases[2].Name
    /\ doc[1].failed.subsections[1].blocks = <<"boom">>

(***************************************************************************)
(* C8: with total lines > 0 the overall percentage of the summary row and  *)
(* of the overview bar label is the input's overallCoverage to 2 decimals, *)
(* whatever the class list holds (never recomputed from per-class sums).   *)
(***************************************************************************)
\* h hundredths is a decimal with two fraction digits nearest to p
NearestHundredths(h, p) ==
    LET d == p.num * 100 - h * p.den
    IN  2 * (IF d < 0 THEN 0 - d ELSE d) <= p.den

C8_OverallVerbatim ==
    (Done /\ Coverage.TotalLines > 0) =>
        /\ Len(doc[1].overview) = 1
        /\ NearestHundredths(doc[1].overview[1].label, Coverage.OverallCoverage)
        /\ \A i \in 1..Len(doc[1].summary.coverage) :
              /\ NearestHundredths(doc[1].summary.coverage[i].pct2, Coverage.OverallCoverage)
              /\ doc[1].summary.coverage[i].pct2 = doc[1].overview[1].label
        /\ Suite.Tests > 0 => Len(doc[1].summary.coverage) = 1
        /\ Coverage.OverallCoverage = Rat(75, 1) => doc[1].overview[1].label = 7500
        /\ Coverage.OverallCoverage = Rat(799, 10) => doc[1].overview[1].label = 7990

\* an overall figure that disagrees with the line counts and the class sums
C8_Witness ==
    /\ Done
    /\ Coverage.TotalLines = 40
    /\ Coverage.CoveredLines = 30
    /\ Coverage.OverallCoverage = Rat(3999, 100)
    /\ Classes = FixtureMerged
    /\ Len(doc[1].summary.coverage) = 1
    /\ doc[1].summary.coverage[1].pct2 = 3999
    /\ doc[1].overview[1].label = 3999

(***************************************************************************)
(* C9: getCoverageEmoji gives every percentage exactly one of four tiers,  *)
(* lower bounds inclusive: p >= 80 good, 60 <= p < 80 fair,                *)
(* 40 <= p < 60 poor, p < 40 critical; the overall coverage row and every  *)
(* per-class row use it.                                                   *)
(***************************************************************************)
Good == Green
Fair == Yellow
Poor == Orange
Critical == Red

TierOf(glyph, p) ==
    /\ glyph \in {Good, Fair, Poor, Critical}
    /\ glyph = Good <=> p.num >= 80 * p.den
    /\ glyph = Fair <=> (p.num >= 60 * p.den /\ p.num < 80 * p.den)
    /\ glyph = Poor <=> (p.num >= 40 * p.den /\ p.num < 60 * p.den)
    /\ glyph = Critical <=> p.num < 40 * p.den

C9_FourTiers ==
    Done =>
        /\ \A i \in 1..Len(doc[1].summary.coverage) :
              TierOf(doc[1].summary.coverage[i].glyph, Coverage.OverallCoverage)
        /\ \A r \in 1..Len(Rows) : TierOf(Rows[r].glyph, Rows[r].Percentage)

\* a class exactly on each lower bound, and the overall figure on one
C9_Witness ==
    /\ Done
    /\ Classes = FixtureTiers
    /\ Coverage.OverallCoverage = Rat(60, 1)
    /\ Len(doc[1].summary.coverage) = 1
    /\ doc[1].summary.coverage[1].glyph = Fair
    /\ Len(Rows) = 4
    /\ Rows[1].glyph = Good /\ Rows[1].pct1 = 800
    /\ Rows[2].glyph = Fair /\ Rows[2].pct1 = 600
    /\ Rows[3].glyph = Poor /\ Rows[3].pct1 = 400
    /\ Rows[4].glyph = Critical

(***************************************************************************)
(* C10 as claimed: 79.9 is given the "poor" tier label and 80.0 the        *)
(* "good" tier label.                                                      *)
(***************************************************************************)
C10_Original ==
    Done =>
        \A i \in 1..Len(doc[1].summary.coverage) :
            /\ Coverage.OverallCoverage = Rat(799, 10)
                  => doc[1].summary.coverage[i].glyph = Poor
            /\ Coverage.OverallCoverage = Rat(80, 1)
                  => doc[1].summary.coverage[i].glyph = Good

(***************************************************************************)
(* C10: 79.9 is given the "fair" tier label (the tier of 60 <= p < 80)     *)
(* and 80.0 the "good" tier label.                                         *)
(***************************************************************************)
C10_BoundaryAt80 ==
    Done =>
        \A i \in 1..Len(doc[1].summary.coverage) :
            /\ Coverage.OverallCoverage = Rat(799, 10)
                  => doc[1].summary.coverage[i].glyph = Fair
            /\ Coverage.OverallCoverage = Rat(80, 1)
                  => doc[1].summary.coverage[i].glyph = Good

\* 79.9 rendered in the summary table
C10_Witness ==
    /\ Done
    /\ Coverage.OverallCoverage = Rat(799, 10)
    /\ Len(doc[1].summary.coverage) = 1
    /\ doc[1].summary.coverage[1].pct2 = 7990
    /\ doc[1].summary.coverage[1].glyph = Fair

(***************************************************************************)
(* The bars                                                                *)
(***************************************************************************)
\* p / 100 * w rounded to the nearest whole number, a half going up
RoundHalfUp(p, w) == (2 * p.num * w + 100 * p.den) \div (200 * p.den)

ClampTo(f, w) == IF f < 0 THEN 0 ELSE IF f > w THEN w ELSE f

OverviewBars == doc[1].overview

\* C11: every bar has round-half-up(p / 100 * W) filled cells, clamped to
\* [0, W], and W - filled empty cells, W being 50 for the overview bar and 10
\* for the mini-bar of a class row.
C11_BarFill ==
    Done =>
        /\ \A i \in 1..Len(OverviewBars) :
              /\ OverviewBars[i].filled =
                     ClampTo(RoundHalfUp(Coverage.OverallCoverage, 50), 50)
              /\ OverviewBars[i].empty = 50 - OverviewBars[i].filled
        /\ \A r \in 1..Len(Rows) :
              /\ Rows[r].bar.filled =
                     ClampTo(RoundHalfUp(Rows[r].Percentage, 10), 10)
              /\ Rows[r].bar.empty = 10 - Rows[r].bar.filled

(***************************************************************************)
(* The invocation                                                          *)
(***************************************************************************)
JUnitSupplied == env.junitFile # ""

CoverageSupplied == env.coverageFile # ""

Decodes(file) == file.readable /\ file.wellFormed

Malformed(file) == file.readable /\ ~file.wellFormed

NoInput == ~JUnitSupplied /\ ~CoverageSupplied

InputFailure ==
    \/ NoInput
    \/ JUnitSupplied /\ ~Decodes(env.junit)
    \/ CoverageSupplied /\ ~Decodes(env.coverage)

Exited == pc = "exit"

NothingWritten == out.stdout = <<>> /\ out.file = env.summaryBefore

\* C12: a run with an input failure (no input, a supplied file unreadable or
\* malformed) writes nothing of the report to the summary file or to standard
\* output, and ends with a non-zero exit status and a diagnostic on stderr.
C12_InputFailureAborts ==
    InputFailure =>
        /\ NothingWritten
        /\ Exited => /\ out.exited
                     /\ out.status # 0
                     /\ out.stderr # <<>>

\* a run given an unreadable JUnit file and a summary file that already has
\* content has ended
C12_Witness ==
    /\ Exited
    /\ JUnitSupplied /\ ~env.junit.readable
    /\ env.summaryFile # "" /\ env.canOpen /\ env.canWrite
    /\ env.summaryBefore # <<>>
    /\ out.status = 1

\* the summaries written in full to the file or to standard output
Summaries ==
    {out.file[i].text[1] : i \in {j \in 1..Len(out.file) : out.file[j].kind = "summary"}}
    \cup
    {out.stdout[i].text[1] : i \in {j \in 1..Len(out.stdout) : out.stdout[j].kind = "summary"}}

SinkWorks == env.summaryFile = "" \/ (env.canOpen /\ env.canWrite)

\* C13 as stated: with the JUnit XML decoded and the supplied coverage
\* document malformed, the test results are still reported, and with the
\* coverage decoded and the supplied JUnit document malformed, the coverage is.
C13_Original ==
    (Exited /\ SinkWorks /\ JUnitSupplied /\ CoverageSupplied) =>
        /\ (Decodes(env.junit) /\ Malformed(env.coverage)) =>
              \E d \in Summaries : d.all = AllTests(env.junit.decoded)
        /\ (Decodes(env.coverage) /\ Malformed(env.junit)) =>
              \E d \in Summaries : d.overview = Overview(env.coverage.decoded)

\* C13: a supplied document that is malformed is fatal to the whole run.  With
\* the JUnit XML decoded and the supplied coverage document malformed, nothing
\* is reported and the run ends with status 1 and the coverage diagnostic;
\* with the coverage decodable and the supplied JUnit document malformed,
\* nothing is reported and the run ends with status 1 and the JUnit diagnostic.
C13_MalformedIsFatal ==
    (JUnitSupplied /\ CoverageSupplied) =>
        /\ (Decodes(env.junit) /\ Malformed(env.coverage)) =>
              /\ NothingWritten
              /\ Exited => /\ out.status = 1
                           /\ out.stderr = <<"Error reading coverage data">>
        /\ (Decodes(env.coverage) /\ Malformed(env.junit)) =>
              /\ NothingWritten
              /\ Exited => /\ out.status = 1
                           /\ out.stderr = <<"Error reading JUnit results">>

\* a run whose JUnit XML decoded and whose coverage document is malformed has
\* ended, the decoded suite in hand
C13_Witness ==
    /\ Exited
    /\ JUnitSupplied /\ Decodes(env.junit)
    /\ CoverageSupplied /\ Malformed(env.coverage)
    /\ SinkWorks
    /\ results.Suite = env.junit.decoded
    /\ results.Suite.Tests > 0

(***************************************************************************)
(* The header and the test listing                                         *)
(***************************************************************************)
Listing == doc[1].all.rows

\* C14: the header reads "All Tests Passed" exactly when the failed count is
\* 0 and "Some Tests Failed" otherwise, and it reads "Some Tests Failed"
\* exactly when a test case of the listing carries the fail glyph.
C14_HeaderConsistent ==
    Done =>
        /\ doc[1].header.text = "All Tests Passed" <=> Suite.Failures = 0
        /\ doc[1].header.text = "Some Tests Failed" <=> Suite.Failures # 0
        /\ doc[1].header.text = "Some Tests Failed" <=>
              \E i \in 1..Len(Listing) : Listing[i].glyph = FailGlyph

(***************************************************************************)
(* The coverage rows of the summary table                                  *)
(***************************************************************************)
SummaryCoverage == doc[1].summary.coverage

\* C15: with a coverage total line count above 0 the document has the two
\* coverage rows of the summary table (the overall percentage to 2 decimals
\* with its glyph, and covered / total), whatever the suite, a missing one
\* or one of zero tests included; with a total of 0 it has no coverage row,
\* no bar and no per-class table.
C15_CoverageRows ==
    Done =>
        /\ Coverage.TotalLines > 0 =>
              /\ Len(SummaryCoverage) = 1
              /\ \A i \in 1..Len(SummaryCoverage) :
                    /\ SummaryCoverage[i].pct2 = FmtFixed(Coverage.OverallCoverage, 2)
                    /\ SummaryCoverage[i].glyph = getCoverageEmoji(Coverage.OverallCoverage)
                    /\ SummaryCoverage[i].CoveredLines = Coverage.CoveredLines
                    /\ SummaryCoverage[i].TotalLines = Coverage.TotalLines
        /\ Coverage.TotalLines = 0 =>
              /\ SummaryCoverage = <<>>
              /\ OverviewBars = <<>>
              /\ ~Table.present

(***************************************************************************)
(* The slowest-tests table                                                 *)
(***************************************************************************)
Slowest == doc[1].slowest

\* the test cases by time descending, those of equal time in input order:
\* the first of the slowest comes first, the rest follows in the same way
RECURSIVE StableByDuration(_)
StableByDuration(testCases) ==
    IF testCases = <<>> THEN <<>>
    ELSE LET slowest == {k \in 1..Len(testCases) :
                            \A j \in 1..Len(testCases) :
                                ~RatGt(testCases[j].Time, testCases[k].Time)}
             first == CHOOSE k \in slowest : \A j \in slowest : k <= j
         IN  <<testCases[first]>> \o StableByDuration(RemoveAt(testCases, first))

Min(a, b) == IF a < b THEN a ELSE b

\* C16: the slowest-tests table is rendered exactly when there is a test
\* case; it has min(10, number of test cases) rows, by duration descending,
\* no omitted test slower than a shown one, and tests of equal duration in
\* their input order: its rows are the first min(10, n) test cases of the
\* stable descending order.
C16_SlowestStable ==
    Done =>
        /\ Slowest.present <=> Len(TestCases) > 0
        /\ Len(Slowest.rows) = Min(10, Len(TestCases))
        /\ \A i \in 1..Len(Slowest.rows) :
              Slowest.rows[i] = TestRow(StableByDuration(TestCases)[i])

(***************************************************************************)
(* The full listing and the inputs                                         *)
(***************************************************************************)
AllListing == doc[1].all

\* C17: the call of generateSummary leaves the test cases and the coverage
\* classes of its input as they were, and the full listing it renders is
\* there exactly when a test case exists and has one row for each test case,
\* in input order.
C17_ListingInInputOrder ==
    [][(pc = "call" /\ pc' = "done") =>
          /\ results'.Suite.TestCases = results.Suite.TestCases
          /\ results'.Coverage.Classes = results.Coverage.Classes
          /\ results' = results
          /\ AllListing'.present <=> Len(results.Suite.TestCases) > 0
          /\ AllListing'.rows =
                 [i \in 1..Len(results.Suite.TestCases) |->
                     TestRow(results.Suite.TestCases[i])]]_vars

\* a call has returned whose test cases and classes are both in an order the
\* sorts change: the slower test and the better covered class come second
C17_Witness ==
    /\ Done
    /\ Len(TestCases) = 2
    /\ RatLt(TestCases[1].Time, TestCases[2].Time)
    /\ Slowest.rows[1] = TestRow(TestCases[2])
    /\ Len(Classes) = 2
    /\ Len(Rows) = 2
    /\ Rows[1].ClassName = TopName(Classes[2])
    /\ AllListing.rows[1] = TestRow(TestCases[1])

(***************************************************************************)
(* Sections that could be empty                                            *)
(***************************************************************************)
FailedSection == doc[1].failed

\* C18: no section is emitted empty.  A Failed Tests heading is followed by
\* at least one subsection, every subsection has a text block under its
\* heading (a failing test without message and body has no subsection), and
\* a per-class table has at least one row.
C18_NoEmptySection ==
    Done =>
        /\ FailedSection.present => Len(FailedSection.subsections) >= 1
        /\ \A i \in 1..Len(FailedSection.subsections) :
              FailedSection.subsections[i].blocks # <<>>
        /\ Table.present => Len(Rows) >= 1

(***************************************************************************)
(* Determinism                                                             *)
(***************************************************************************)
\* C19: the document is a function of the input: every run of
\* generateSummary on the input of this run returns the document this run
\* returned, the order of the per-class rows included.
C19_Deterministic ==
    Done => \A d \in generateSummary(results) : d = doc[1]

(***************************************************************************)
(* Durations                                                               *)
(***************************************************************************)
\* a printed duration d of a time of t seconds has the form of t's range and
\* a number inside it
InForm(d, t) ==
    /\ d.form \in {"ms", "s", "m"}
    /\ d.form = "ms" <=> RatLt(t, Rat(1, 1))
    /\ d.form = "s" <=> RatGe(t, Rat(1, 1)) /\ RatLt(t, Rat(60, 1))
    /\ d.form = "m" <=> RatGe(t, Rat(60, 1))
    /\ d.form = "ms" => d.v >= 0 /\ d.v < 1000
    /\ d.form = "s" => d.v >= 100 /\ d.v < 6000
    /\ d.form = "m" => /\ d.m = t.num \div (t.den * 60)
                       /\ d.v >= 0 /\ d.v < 600

\* C20: every non-negative duration is printed in exactly one of three
\* forms: below 1000 ms as whole milliseconds below 1000, from 1000 ms to
\* below 60 s as seconds with two decimals below 60, from 60 s as
\* floor(d / 60 s) minutes and seconds with one decimal in [0, 60).
C20_DurationForms ==
    Done =>
        /\ \A i \in 1..Len(doc[1].summary.stats) :
              InForm(doc[1].summary.stats[i].Duration, Suite.Time)
        /\ \A i \in 1..Len(Listing) :
              InForm(Listing[i].Duration, TestCases[i].Time)

====
